---- MODULE Spec2Model ----
(***************************************************************************)
(* Model of the comment-cleaning and sentiment-inference pipeline:         *)
(*   src/src/clean_text.py           CleanText, RemoveNonEnglish, Stopwords *)
(*   src/src/sentiment_predictor.py  SentimentPredictor                     *)
(*                                                                         *)
(* A Python str is a sequence of one-character strings.  The alphabet      *)
(* holds one or two members of every class of character the code tells     *)
(* apart: lowercase letters ("a", "s"), an uppercase letter ("A"), a       *)
(* punctuation mark the filter keeps ("?"), a character the filter         *)
(* replaces ("#") and whitespace (" ").                                    *)
(***************************************************************************)
EXTENDS Integers, Sequences, FiniteSets, TLC

VARIABLES
    text,          \* the raw text handed to the normalizer
    do_stemming,   \* CleanText.do_stemming / the do_stemming argument
    stopwords,     \* CleanText.stopwords
    cleaner,       \* which class's clean_text is applied: "CleanText" | "SentimentPredictor"
    passes,        \* the outputs of the successive clean_text applications
    raised,        \* the exception the last clean_text call raised, or "none"
    corpus,        \* nltk.corpus.stopwords.words('english')
    sw,            \* the last constructed Stopwords object
    seed,          \* langdetect's DetectorFactory.seed (process-global)
    oracle,        \* what detect(text) yields under seed 0, for each text
    df,            \* the dataframe handed to RemoveNonEnglish
    rne,           \* the last constructed RemoveNonEnglish object
    comment,       \* the value handed to SentimentPredictor.predict
    pred           \* the last predict call

vars == <<text, do_stemming, stopwords, cleaner, passes, raised, corpus, sw,
          seed, oracle, df, rne, comment, pred>>

normVars == <<text, do_stemming, stopwords, cleaner, passes, raised>>
stopVars == <<corpus, sw>>
langVars == <<seed, oracle, df, rne, comment, pred>>

----------------------------------------------------------------------------
(* Bounds *)

MaxLen == 4          \* longest text handed to the normalizer
MaxCommentLen == 2   \* longest comment handed to predict
MaxRows == 3         \* most rows of a dataframe
MaxPasses == 2       \* how often clean_text is re-applied to its own output

----------------------------------------------------------------------------
(* Strings *)

Chars == {"a", "s", "A", "?", "#", " "}

Strings(n) == UNION {[1..k -> Chars] : k \in 0..n}

\* str.lower() on one character
LowerChar(c) == IF c = "A" THEN "a" ELSE c

\* text.lower()
RECURSIVE Lower(_)
Lower(t) ==
    IF t = <<>> THEN <<>> ELSE <<LowerChar(Head(t))>> \o Lower(Tail(t))

\* the characters of the alphabet that the class [a-z0-9?!] holds
AllowedChars == {"a", "s", "?"}

\* re.sub('[^a-z0-9?!]', ' ', text)
RECURSIVE SubDisallowed(_)
SubDisallowed(t) ==
    IF t = <<>> THEN <<>>
    ELSE <<IF Head(t) \in AllowedChars THEN Head(t) ELSE " ">> \o SubDisallowed(Tail(t))

\* the characters \s matches and str.strip() / str.split() treat as whitespace
IsSpace(c) == c = " "

\* re.sub(r'\s+', ' ', text): every maximal run of whitespace becomes one space
RECURSIVE CollapseSpaces(_)
CollapseSpaces(t) ==
    IF t = <<>> THEN <<>>
    ELSE IF IsSpace(Head(t))
         THEN IF Tail(t) # <<>> /\ IsSpace(Head(Tail(t)))
              THEN CollapseSpaces(Tail(t))
              ELSE <<" ">> \o CollapseSpaces(Tail(t))
         ELSE <<Head(t)>> \o CollapseSpaces(Tail(t))

RECURSIVE LStrip(_)
LStrip(t) == IF t # <<>> /\ IsSpace(Head(t)) THEN LStrip(Tail(t)) ELSE t

RECURSIVE RStrip(_)
RStrip(t) ==
    IF t # <<>> /\ IsSpace(t[Len(t)]) THEN RStrip(SubSeq(t, 1, Len(t) - 1)) ELSE t

\* only the leading whitespace is removed
StripLeftOnly(t) == LStrip(t)

\* str.strip()
Strip(t) == RStrip(LStrip(t))

\* str.split(): the maximal runs of non-whitespace, in order
RECURSIVE SplitFrom(_, _)
SplitFrom(t, cur) ==
    IF t = <<>> THEN (IF cur = <<>> THEN <<>> ELSE <<cur>>)
    ELSE IF IsSpace(Head(t))
         THEN (IF cur = <<>> THEN <<>> ELSE <<cur>>) \o SplitFrom(Tail(t), <<>>)
         ELSE SplitFrom(Tail(t), Append(cur, Head(t)))

Split(t) == SplitFrom(t, <<>>)

\* ' '.join(parts)
RECURSIVE Join(_)
Join(parts) ==
    IF parts = <<>> THEN <<>>
    ELSE IF Len(parts) = 1 THEN Head(parts)
    ELSE Head(parts) \o <<" ">> \o Join(Tail(parts))

EndsWith(w, suffix) ==
    /\ Len(w) >= Len(suffix)
    /\ SubSeq(w, Len(w) - Len(suffix) + 1, Len(w)) = suffix

\* PorterStemmer().stem(word) as nltk computes it on words over this alphabet:
\* a word of at most two characters is returned as it is; step 1a keeps a
\* final "ss" and drops any other final "s"; no later step has a suffix
\* made of these characters.
Stem(w) ==
    IF Len(w) <= 2 THEN w
    ELSE IF EndsWith(w, <<"s", "s">>) THEN w
    ELSE IF EndsWith(w, <<"s">>) THEN SubSeq(w, 1, Len(w) - 1)
    ELSE w
----------------------------------------------------------------------------
(* TextNormalizer: CleanText.clean_text and SentimentPredictor.clean_text *)

\* the result of a call: a returned value, or a raised exception
Return(v) == [exc |-> "none", val |-> v]
Raise(e) == [exc |-> e, val |-> <<>>]

\* only the first stopword token is dropped
RECURSIVE DropStopwordsFirstOnly(_, _)
DropStopwordsFirstOnly(parts, sws) ==
    IF parts = <<>> THEN <<>>
    ELSE IF Head(parts) \in sws THEN Tail(parts)
    ELSE <<Head(parts)>> \o DropStopwordsFirstOnly(Tail(parts), sws)

\* [part for part in parts if part not in self.stopwords]
RECURSIVE DropStopwords(_, _)
DropStopwords(parts, sws) ==
    IF parts = <<>> THEN <<>>
    ELSE (IF Head(parts) \in sws THEN <<>> ELSE <<Head(parts)>>)
         \o DropStopwords(Tail(parts), sws)

\* [self.ps.stem(part) for part in parts]
RECURSIVE StemAll(_)
StemAll(parts) ==
    IF parts = <<>> THEN <<>> ELSE <<Stem(Head(parts))>> \o StemAll(Tail(parts))

\* lines 26-31 of clean_text.py: lower, filter, collapse, strip
BaseClean(t) == Strip(CollapseSpaces(SubDisallowed(Lower(t))))

\* the filter applied after the collapse and the strip, not before them
CleanText_clean_text_misordered(t, stem, sws) ==
    LET base == SubDisallowed(Strip(CollapseSpaces(Lower(t)))) IN
    IF stem \/ Cardinality(sws) > 0
    THEN Join(IF stem THEN StemAll(DropStopwords(Split(base), sws))
                      ELSE DropStopwords(Split(base), sws))
    ELSE base

\* CleanText.clean_text(text) of an object with do_stemming = stem and
\* stopwords = sws
CleanText_clean_text(t, stem, sws) ==
    LET base == BaseClean(t) IN
    IF stem \/ Cardinality(sws) > 0
    THEN Join(IF stem THEN StemAll(DropStopwords(Split(base), sws))
                      ELSE DropStopwords(Split(base), sws))
    ELSE base

\* the text is filtered without being lowercased first
SentimentPredictor_clean_text_no_lower(t, stem) ==
    Return(Strip(CollapseSpaces(SubDisallowed(t))))

\* SentimentPredictor.clean_text(text, do_stemming): the object has no
\* attribute ps, so the first token to stem raises AttributeError; with no
\* token the comprehension never evaluates self.ps
SentimentPredictor_clean_text(t, stem) ==
    LET base == Strip(CollapseSpaces(SubDisallowed(Lower(t)))) IN
    IF stem
    THEN IF Split(base) = <<>> THEN Return(Join(<<>>)) ELSE Raise("AttributeError")
    ELSE Return(base)

\* the words a stopword set is drawn from
StopwordUniverse == {<<"a">>, <<"a", "a">>}

\* the text the next clean_text call is applied to
NormInput == IF passes = <<>> THEN text ELSE passes[Len(passes)]

\* a caller applies CleanText.clean_text, first to the raw text and then to
\* what it returned
CleanTextCall ==
    /\ cleaner = "CleanText"
    /\ Len(passes) < MaxPasses
    /\ passes' = Append(passes, CleanText_clean_text(NormInput, do_stemming, stopwords))
    /\ UNCHANGED <<text, do_stemming, stopwords, cleaner, raised>>
    /\ UNCHANGED <<stopVars, langVars>>

\* a caller applies SentimentPredictor.clean_text likewise
PredictorCleanCall ==
    /\ cleaner = "SentimentPredictor"
    /\ Len(passes) < MaxPasses
    /\ raised = "none"
    /\ LET r == SentimentPredictor_clean_text(NormInput, do_stemming) IN
        /\ raised' = r.exc
        /\ passes' = IF r.exc = "none" THEN Append(passes, r.val) ELSE passes
    /\ UNCHANGED <<text, do_stemming, stopwords, cleaner>>
    /\ UNCHANGED <<stopVars, langVars>>
----------------------------------------------------------------------------
(* StopwordSet: class Stopwords.  A word is a sequence of characters. *)

\* the list of line 105
SpecifiedStopwords ==
    { <<"i">>, <<"t", "h", "e">>, <<"a", "n", "d">>, <<"f", "o", "r">>,
      <<"a">>, <<"o", "f">>, <<"t", "o">>, <<"t", "h", "i", "s">>,
      <<"t", "h", "a", "t">>, <<"i", "n">>, <<"o", "n">>, <<"a", "t">>,
      <<"s", "o">>, <<"w", "i", "t", "h">>, <<"a", "s">>,
      <<"w", "a", "s">>, <<"i", "s">>, <<"a", "r", "e">>, <<"b", "e">>,
      <<"i", "t">>, <<"h", "a", "v", "e">>, <<"h", "a", "s">>,
      <<"y", "o", "u">>, <<"y", "o", "u", "r">> }

\* reserve, the list of line 112, in its order
reserve ==
    << <<"n", "o", "t">>, <<"n", "o">>, <<"n", "e", "v", "e", "r">>,
       <<"b", "u", "t">>, <<"o", "n", "l", "y">>, <<"j", "u", "s", "t">>,
       <<"v", "e", "r", "y">>, <<"r", "e", "a", "l", "l", "y">>,
       <<"t", "o", "o">>, <<"d", "o", "n", "'", "t">>,
       <<"w", "a", "s", "n", "'", "t">>, <<"d", "i", "d", "n", "'", "t">>,
       <<"c", "a", "n", "'", "t">>, <<"w", "o", "n", "'", "t">> >>

\* the words the English stopword corpus is drawn from: four of the reserved
\* words and three others
CorpusUniverse ==
    { <<"n", "o", "t">>, <<"n", "o">>, <<"t", "o", "o">>,
      <<"d", "o", "n", "'", "t">>, <<"t", "h", "e">>, <<"a", "n", "d">>,
      <<"i">> }

\* the values of stopwords_type: the two the class knows and one it does not
StopwordKinds == {"specified", "nltk", "spacy"}

\* the loop stops after the first reserved word
RemoveReservedFirstOnly(words, rs) ==
    IF rs = <<>> THEN words ELSE words \ {Head(rs)}

\* for word in reserve: if word in self.stopwords: self.stopwords.remove(word)
RECURSIVE RemoveReserved(_, _)
RemoveReserved(words, rs) ==
    IF rs = <<>> THEN words
    ELSE RemoveReserved(IF Head(rs) \in words THEN words \ {Head(rs)} ELSE words,
                        Tail(rs))

\* Stopwords(stopwords_type).get_stopwords(), the corpus holding `words`
Stopwords_init(kind, words) ==
    IF kind = "specified" THEN SpecifiedStopwords
    ELSE IF kind = "nltk" THEN RemoveReserved(words, reserve)
    ELSE {}

NoStopwords == [constructed |-> FALSE, kind |-> "", stopwords |-> {}]

\* Stopwords(kind) is constructed
StopwordsNew ==
    /\ \E kind \in StopwordKinds :
         sw' = [constructed |-> TRUE, kind |-> kind,
                stopwords |-> Stopwords_init(kind, corpus)]
    /\ UNCHANGED <<corpus, normVars, langVars>>
----------------------------------------------------------------------------
(* LanguageFilter: langdetect's detect under DetectorFactory.seed *)

Languages == {"en", "fr"}

\* detect raising LangDetectException
DetectFailure == "LangDetectException"

DetectOutcomes == Languages \cup {DetectFailure}

\* a text with no letter gives the detector no n-gram to score, and detect
\* raises whatever the seed
HasLetter(t) == \E i \in 1..Len(t) : t[i] \in {"a", "s", "A"}

\* the detectors under seed 0 on the texts of T: any outcome for a text that
\* has a letter
Detectors(T) ==
    {f \in [T -> DetectOutcomes] : \A t \in T : ~HasLetter(t) => f[t] = DetectFailure}

\* what detect(t) may yield: under seed 0 the detector is a function of the
\* text; with no seed it samples, and a text that has features may come out
\* as any language
detect(t) ==
    IF seed = "0" THEN {oracle[t]}
    ELSE IF oracle[t] = DetectFailure THEN {DetectFailure}
    ELSE Languages

----------------------------------------------------------------------------
(* DatasetCleaner: class RemoveNonEnglish.  A dataframe is the sequence of
   its rows, each an index label and a text. *)

Ids == {1, 2, 3}

DatasetTexts == {<<"a">>, <<"s", "?">>, <<"A", "#">>}

Rows(texts) == [index : Ids, text : texts]

Datasets(texts, n) == UNION {[1..k -> Rows(texts)] : k \in 0..n}

\* the index labels of a list of entries
RECURSIVE Labels(_)
Labels(entries) ==
    IF entries = <<>> THEN {} ELSE {Head(entries).index} \cup Labels(Tail(entries))

\* lines 72-80 with the seed at 0: [index, text] of every row on which
\* detect raises, in order
RECURSIVE exception_entries_of(_)
exception_entries_of(d) ==
    IF d = <<>> THEN <<>>
    ELSE (IF oracle[Head(d).text] = DetectFailure
          THEN <<[index |-> Head(d).index, text |-> Head(d).text]>>
          ELSE <<>>) \o exception_entries_of(Tail(d))

\* a detection failure ends the loop: the rows after it are never classified
RECURSIVE other_language_entries_until_failure(_)
other_language_entries_until_failure(d) ==
    IF d = <<>> \/ oracle[Head(d).text] = DetectFailure THEN <<>>
    ELSE (IF oracle[Head(d).text] # "en"
          THEN <<[index |-> Head(d).index, text |-> Head(d).text,
                  language |-> oracle[Head(d).text]]>>
          ELSE <<>>) \o other_language_entries_until_failure(Tail(d))

\* lines 72-80 with the seed at 0: [index, text, language] of every row
\* detect gives a language other than 'en', in order
RECURSIVE other_language_entries_of(_)
other_language_entries_of(d) ==
    IF d = <<>> THEN <<>>
    ELSE (IF oracle[Head(d).text] \notin {"en", DetectFailure}
          THEN <<[index |-> Head(d).index, text |-> Head(d).text,
                  language |-> oracle[Head(d).text]]>>
          ELSE <<>>) \o other_language_entries_of(Tail(d))

\* the rows of d whose label is not among labels, in order
RECURSIVE WithoutLabels(_, _)
WithoutLabels(d, labels) ==
    IF d = <<>> THEN <<>>
    ELSE (IF Head(d).index \in labels THEN <<>> ELSE <<Head(d)>>)
         \o WithoutLabels(Tail(d), labels)

\* df.drop(labels=..., inplace=True): every row bearing one of the labels
\* goes; a label that no row bears raises KeyError and drops nothing
drop(d, labels) ==
    IF \E l \in labels : \A i \in 1..Len(d) : d[i].index # l
    THEN [exc |-> "KeyError", val |-> d]
    ELSE [exc |-> "none", val |-> WithoutLabels(d, labels)]

NoObject ==
    [status |-> "none", input |-> <<>>, exception_entries |-> <<>>,
     other_language_entries |-> <<>>, original_size |-> 0, remove_num |-> 0]

\* RemoveNonEnglish(df): __init__ sets the seed, collects the entries and
\* removes them; remove_num is what line 93 prints
RemoveNonEnglish_init ==
    LET exc == exception_entries_of(df)
        other == other_language_entries_of(df)
        first == drop(df, Labels(exc))
        second == drop(first.val, Labels(other))
        ok == first.exc = "none" /\ second.exc = "none"
    IN  /\ seed' = "0"
        /\ df' = IF first.exc # "none" THEN df ELSE second.val
        /\ rne' = [status |-> IF ok THEN "ok" ELSE "KeyError",
                   input |-> df,
                   exception_entries |-> exc,
                   other_language_entries |-> other,
                   original_size |-> Len(df),
                   remove_num |-> IF ok THEN Len(df) - Len(second.val) ELSE 0]
        /\ UNCHANGED <<oracle, comment, pred, normVars, stopVars>>
----------------------------------------------------------------------------
(* SentimentPredictor.predict *)

\* self.labels, line 25
labels == <<"negative", "neutral", "positive">>

\* outputs.logits of one model on one input, a score per label: each label
\* the single highest, and two ties
Logits == {<<1, 0, 0>>, <<0, 1, 0>>, <<0, 0, 1>>, <<1, 1, 0>>, <<0, 1, 1>>}

\* the argument of predict: a str, or a value that is no str (42)
PyStr(t) == [type |-> "str", val |-> t]
PyInt == [type |-> "int", val |-> <<>>]

\* always the first label
argmax_first(l) == 0

\* torch.argmax(logits, dim=1).item(): the 0-based index of the first maximal
\* score
argmax(l) ==
    (CHOOSE i \in 1..Len(l) :
        /\ \A j \in 1..Len(l) : l[j] <= l[i]
        /\ \A j \in 1..(i - 1) : l[j] < l[i]) - 1

\* one call of an external collaborator made by predict
Call(fn, arg, lang, logits) == [fn |-> fn, arg |-> arg, lang |-> lang, logits |-> logits]

NoResult == [sentiment_for_product |-> "", sentiment_for_video |-> ""]

Outcome(kind, result, calls) ==
    [called |-> TRUE, kind |-> kind, result |-> result, calls |-> calls]

\* the blank check is missing: a blank comment reaches the detector
predict_no_blank_check(c, lang, lp, lv) ==
    IF c.type # "str" THEN Outcome("TypeError", NoResult, <<>>)
    ELSE IF lang # "en"
         THEN Outcome("None", NoResult, <<Call("detect", c.val, lang, <<>>)>>)
         ELSE Outcome("dict",
                      [sentiment_for_product |-> labels[argmax(lp) + 1],
                       sentiment_for_video |-> labels[argmax(lv) + 1]],
                      <<Call("detect", c.val, lang, <<>>),
                        Call("tokenizer", SentimentPredictor_clean_text(c.val, FALSE).val, "", <<>>),
                        Call("model_product", <<>>, "", lp),
                        Call("model_video", <<>>, "", lv)>>)

\* predict(comment), lines 58-96: lang is what detect yields on the raw
\* comment (DetectFailure when it raises), lp and lv the logits the product
\* and the video model give for the tokenized input
predict(c, lang, lp, lv) ==
    IF c.type # "str" THEN Outcome("TypeError", NoResult, <<>>)
    ELSE IF Strip(c.val) = <<>> THEN Outcome("None", NoResult, <<>>)
    ELSE IF lang # "en"
         THEN Outcome("None", NoResult, <<Call("detect", c.val, lang, <<>>)>>)
         ELSE LET cleaned == SentimentPredictor_clean_text(c.val, FALSE) IN
              IF cleaned.exc # "none"
              THEN Outcome(cleaned.exc, NoResult, <<Call("detect", c.val, lang, <<>>)>>)
              ELSE Outcome("dict",
                           [sentiment_for_product |-> labels[argmax(lp) + 1],
                            sentiment_for_video |-> labels[argmax(lv) + 1]],
                           <<Call("detect", c.val, lang, <<>>),
                             Call("tokenizer", cleaned.val, "", <<>>),
                             Call("model_product", <<>>, "", lp),
                             Call("model_video", <<>>, "", lv)>>)

NoCall == [called |-> FALSE, kind |-> "", result |-> NoResult, calls |-> <<>>]

\* predict(comment) is called
Predict ==
    /\ pred' \in {predict(comment, lang, lp, lv) :
                      lang \in detect(comment.val), lp \in Logits, lv \in Logits}
    /\ UNCHANGED <<seed, oracle, df, rne, comment, normVars, stopVars>>

----------------------------------------------------------------------------
(* Specifications *)

\* the normalizer on every text and configuration
InitNorm ==
    /\ text \in Strings(MaxLen)
    /\ do_stemming \in BOOLEAN
    /\ cleaner \in {"CleanText", "SentimentPredictor"}
    /\ stopwords \in (IF cleaner = "CleanText" THEN SUBSET StopwordUniverse ELSE {{}})
    /\ passes = <<>>
    /\ raised = "none"
    /\ corpus = {}
    /\ sw = NoStopwords
    /\ seed = "None"
    /\ oracle = [t \in {<<>>} |-> DetectFailure]
    /\ df = <<>>
    /\ rne = NoObject
    /\ comment = PyStr(<<>>)
    /\ pred = NoCall

NextNorm == CleanTextCall \/ PredictorCleanCall

SpecNorm == InitNorm /\ [][NextNorm]_vars

\* the stopword sets over every corpus
InitStop ==
    /\ corpus \in SUBSET CorpusUniverse
    /\ sw = NoStopwords
    /\ text = <<>>
    /\ do_stemming = FALSE
    /\ stopwords = {}
    /\ cleaner = "CleanText"
    /\ passes = <<>>
    /\ raised = "none"
    /\ seed = "None"
    /\ oracle = [t \in {<<>>} |-> DetectFailure]
    /\ df = <<>>
    /\ rne = NoObject
    /\ comment = PyStr(<<>>)
    /\ pred = NoCall

NextStop == StopwordsNew

SpecStop == InitStop /\ [][NextStop]_vars

\* dataset cleaning in a process that has not touched langdetect yet:
\* DetectorFactory.seed is None, its value on import
InitFilter ==
    /\ seed = "None"
    /\ oracle \in Detectors(DatasetTexts)
    /\ df \in Datasets(DatasetTexts, MaxRows)
    /\ rne = NoObject
    /\ comment = PyStr(<<>>)
    /\ pred = NoCall
    /\ text = <<>>
    /\ do_stemming = FALSE
    /\ stopwords = {}
    /\ cleaner = "CleanText"
    /\ passes = <<>>
    /\ raised = "none"
    /\ corpus = {}
    /\ sw = NoStopwords

NextFilter == RemoveNonEnglish_init

SpecFilter == InitFilter /\ [][NextFilter]_vars

\* inference, with or without a dataset cleaned earlier in the process: one
\* comment, the detector's answer for its text, and a dataframe that is
\* empty or holds that text in its one row
InitPredict ==
    /\ seed = "None"
    /\ comment \in {PyStr(t) : t \in Strings(MaxCommentLen)} \cup {PyInt}
    /\ oracle \in Detectors({comment.val})
    /\ df \in {<<>>, <<[index |-> 1, text |-> comment.val]>>}
    /\ rne = NoObject
    /\ pred = NoCall
    /\ text = <<>>
    /\ do_stemming = FALSE
    /\ stopwords = {}
    /\ cleaner = "CleanText"
    /\ passes = <<>>
    /\ raised = "none"
    /\ corpus = {}
    /\ sw = NoStopwords

NextPredict == Predict \/ RemoveNonEnglish_init

SpecPredict == InitPredict /\ [][NextPredict]_vars

Spec == SpecPredict
----------------------------------------------------------------------------
(* Properties *)

DistinctIds(d) ==
    \A i \in 1..Len(d) : \A j \in 1..Len(d) : i # j => d[i].index # d[j].index

\* K: the rows the detector does not classify as English
NonEnglishCount(d) == Cardinality({i \in 1..Len(d) : oracle[d[i].text] # "en"})

\* the rows the detector classifies as English, in order and untouched
RECURSIVE EnglishRows(_)
EnglishRows(d) ==
    IF d = <<>> THEN <<>>
    ELSE (IF oracle[Head(d).text] = "en" THEN <<Head(d)>> ELSE <<>>)
         \o EnglishRows(Tail(d))

\* C1: on a dataframe of N rows with distinct labels, K of them not English
\* or undetectable, RemoveNonEnglish leaves N-K rows, reports K removed, and
\* K = len(exception_entries) + len(other_language_entries).
C1_RemovedCount ==
    (rne.status # "none" /\ DistinctIds(rne.input)) =>
        LET K == NonEnglishCount(rne.input) IN
        /\ rne.status = "ok"
        /\ rne.original_size = Len(rne.input)
        /\ Len(df) = rne.original_size - K
        /\ rne.remove_num = K
        /\ K = Len(rne.exception_entries) + Len(rne.other_language_entries)

\* three rows with distinct labels: one English, one French, one undetectable
C1_Witness ==
    /\ rne.status = "ok"
    /\ DistinctIds(rne.input)
    /\ Len(rne.input) = 3
    /\ Len(rne.exception_entries) = 1
    /\ Len(rne.other_language_entries) = 1
    /\ Len(df) = 1

\* C2: after RemoveNonEnglish runs on any dataframe, the surviving rows are
\* exactly the original rows classified as English, label and text unchanged,
\* and the run completes whatever the detector does on single rows.
C2_SurvivorsAreEnglishRows ==
    rne.status # "none" => (rne.status = "ok" /\ df = EnglishRows(rne.input))

IsBlank(t) == \A i \in 1..Len(t) : t[i] = " "

ModelCalls == {"tokenizer", "model_product", "model_video"}

\* C3: predict raises TypeError on a non-string, returns None on a blank
\* string without consulting the detector, returns None when the detector
\* gives another language or raises; the detector's failure never reaches
\* the caller, and in none of these cases the tokenizer or a model is called.
C3_NonResultOutcomes ==
    pred.called =>
        /\ pred.kind \in {"TypeError", "None", "dict"}
        /\ comment.type # "str" => (pred.kind = "TypeError" /\ pred.calls = <<>>)
        /\ (comment.type = "str" /\ IsBlank(comment.val)) =>
               (pred.kind = "None" /\ pred.calls = <<>>)
        /\ (comment.type = "str" /\ ~IsBlank(comment.val)) =>
               /\ Len(pred.calls) >= 1
               /\ pred.calls[1].fn = "detect"
               /\ pred.calls[1].lang # "en" => (pred.kind = "None" /\ Len(pred.calls) = 1)
               /\ pred.calls[1].lang = "en" => pred.kind = "dict"
        /\ pred.kind # "dict" =>
               \A i \in 1..Len(pred.calls) : pred.calls[i].fn \notin ModelCalls

\* predict returned None because the detector raised on a non-blank string
C3_Witness ==
    /\ pred.called
    /\ pred.kind = "None"
    /\ ~IsBlank(comment.val)
    /\ Len(pred.calls) = 1
    /\ pred.calls[1].lang = DetectFailure

\* label is the label at an index where the scores are highest
IsTopLabel(label, scores) ==
    \E i \in 1..3 :
        /\ <<"negative", "neutral", "positive">>[i] = label
        /\ \A j \in 1..3 : scores[j] <= scores[i]

\* C4: for a non-blank string the detector classifies as English, predict
\* returns both keys, each the label at the index of the highest score of
\* its own model, both models run on the same tokenized input.
C4_BothLabelsByArgmax ==
    (/\ pred.called
     /\ comment.type = "str"
     /\ ~IsBlank(comment.val)
     /\ Len(pred.calls) >= 1
     /\ pred.calls[1].lang = "en") =>
        /\ pred.kind = "dict"
        /\ Len(pred.calls) = 4
        /\ pred.calls[2].fn = "tokenizer"
        /\ pred.calls[3].fn = "model_product"
        /\ pred.calls[4].fn = "model_video"
        /\ IsTopLabel(pred.result.sentiment_for_product, pred.calls[3].logits)
        /\ IsTopLabel(pred.result.sentiment_for_video, pred.calls[4].logits)

\* the two heads disagree on one comment
C4_Witness ==
    /\ pred.called
    /\ pred.kind = "dict"
    /\ pred.result.sentiment_for_product = "positive"
    /\ pred.result.sentiment_for_video = "negative"

\* C5: two predict calls on the same comment return the same absent/present
\* outcome, whether or not a RemoveNonEnglish object was constructed earlier.
C5_PredictDeterministic ==
    [][(pred.called /\ pred'.called /\ comment' = comment) => pred'.kind = pred.kind]_vars

NormalizedChars == {"a", "s", "?", " "}

WellFormed(t) ==
    /\ \A i \in 1..Len(t) : t[i] \in NormalizedChars
    /\ t # <<>> => (t[1] # " " /\ t[Len(t)] # " ")
    /\ \A i \in 1..(Len(t) - 1) : ~(t[i] = " " /\ t[i + 1] = " ")

\* C6: whatever the text and the configuration, what clean_text returns
\* holds only characters of {a-z, 0-9, space, ?, !}, no leading or trailing
\* space and no two consecutive spaces; the empty text gives the empty text.
C6_OutputWellFormed ==
    /\ \A i \in 1..Len(passes) : WellFormed(passes[i])
    /\ (text = <<>> /\ Len(passes) >= 1) => passes[1] = <<>>

\* stemming and a stopword at work on a text that needs every cleaning step
C6_Witness ==
    /\ cleaner = "CleanText"
    /\ do_stemming
    /\ stopwords = {<<"a">>}
    /\ text = <<"#", "A", " ", "s">>
    /\ passes = << <<"s">> >>

\* C7: with stemming off and no stopwords, CleanText.clean_text applied to
\* its own output returns it unchanged.
C7_IdempotentPlain ==
    (cleaner = "CleanText" /\ ~do_stemming /\ stopwords = {}) =>
        \A i \in 1..(Len(passes) - 1) : passes[i + 1] = passes[i]

\* a second pass over the output of a text the first pass changed
C7_Witness ==
    /\ cleaner = "CleanText"
    /\ ~do_stemming
    /\ stopwords = {}
    /\ Len(passes) >= 2
    /\ passes[1] # text
    /\ passes[1] # <<>>

\* C8 as stated: for every configuration, stemming and stopwords included,
\* clean_text applied twice equals clean_text applied once.
C8_IdempotentAnyConfig ==
    cleaner = "CleanText" =>
        \A i \in 1..(Len(passes) - 1) : passes[i + 1] = passes[i]

\* what the surviving tokens of the first pass become
SurvivingStems ==
    LET parts == Split(BaseClean(text))
        kept == {i \in 1..Len(parts) : parts[i] \notin stopwords}
    IN  {IF do_stemming THEN Stem(parts[i]) ELSE parts[i] : i \in kept}

\* no stem of a surviving token is a stopword or changes when stemmed again
StemsStable ==
    \A w \in SurvivingStems : w \notin stopwords /\ (do_stemming => Stem(w) = w)

\* C8 (amended): for every configuration under which no stem of a surviving
\* token is itself a stopword or changes when stemmed again, clean_text
\* applied twice equals clean_text applied once.
C8_IdempotentWhenStemsStable ==
    (cleaner = "CleanText" /\ StemsStable) =>
        \A i \in 1..(Len(passes) - 1) : passes[i + 1] = passes[i]

\* a second pass where the first one dropped a stopword and stemmed a token
C8_Witness ==
    /\ cleaner = "CleanText"
    /\ do_stemming
    /\ stopwords = {<<"a">>}
    /\ text = <<"a", " ", "s", "s">>
    /\ StemsStable
    /\ Len(passes) >= 2

ReservedWords ==
    { <<"n", "o", "t">>, <<"n", "o">>, <<"n", "e", "v", "e", "r">>,
      <<"b", "u", "t">>, <<"o", "n", "l", "y">>, <<"j", "u", "s", "t">>,
      <<"v", "e", "r", "y">>, <<"r", "e", "a", "l", "l", "y">>,
      <<"t", "o", "o">>, <<"d", "o", "n", "'", "t">>,
      <<"w", "a", "s", "n", "'", "t">>, <<"d", "i", "d", "n", "'", "t">>,
      <<"c", "a", "n", "'", "t">>, <<"w", "o", "n", "'", "t">> }

\* C9: whatever the corpus holds, Stopwords('nltk') holds none of the
\* reserved words and every other word of the corpus; a kind that is neither
\* 'specified' nor 'nltk' gives the empty set.
C9_ReservedNeverFiltered ==
    sw.constructed =>
        /\ sw.kind = "nltk" =>
               /\ sw.stopwords \cap ReservedWords = {}
               /\ corpus \ ReservedWords \subseteq sw.stopwords
        /\ sw.kind \notin {"specified", "nltk"} => sw.stopwords = {}

\* the 'nltk' set built from a corpus holding several reserved words
C9_Witness ==
    /\ sw.constructed
    /\ sw.kind = "nltk"
    /\ corpus = CorpusUniverse
    /\ Cardinality(sw.stopwords) = 3

\* C10: what predict hands to the tokenizer is what CleanText.clean_text with
\* stemming off and no stopwords returns on the comment, and the detector has
\* been run before, on the raw comment.
C10_InferenceNormalizer ==
    pred.called =>
        /\ \A i \in 1..Len(pred.calls) :
               pred.calls[i].fn = "detect" => (i = 1 /\ pred.calls[i].arg = comment.val)
        /\ \A i \in 1..Len(pred.calls) :
               pred.calls[i].fn = "tokenizer" =>
                   /\ i = 2
                   /\ pred.calls[1].fn = "detect"
                   /\ pred.calls[i].arg = CleanText_clean_text(comment.val, FALSE, {})
        /\ pred.kind = "dict" => (Len(pred.calls) >= 2 /\ pred.calls[2].fn = "tokenizer")

\* a comment that the normalization changes reached the tokenizer
C10_Witness ==
    /\ pred.called
    /\ pred.kind = "dict"
    /\ comment.val = <<"A", "#">>
    /\ pred.calls[2].arg = <<"a">>
====
